---- MODULE Spec2Model ----
(***************************************************************************)
(* A model of lrl-rts-utils:                                               *)
(*   - rtsutils/cavi/jython/ui/cumulus.py  Cumulus.execute and the         *)
(*     cache-aware window resolver (adjust_dates_by_cache,                 *)
(*     remove_observed_products);                                          *)
(*   - rtsutils/go/__init__.py  get (realtime branch) and                  *)
(*     __parse_go_output, run against a worker process that writes         *)
(*     diagnostic lines and a result string;                               *)
(*   - watershed_scripts/access_water_extract.py  the byte loop that cuts  *)
(*     the worker's output into JSON objects.                              *)
(*                                                                         *)
(* Time is counted in ticks, TicksPerDay ticks to a day.  A datetime is a  *)
(* tick count; an ISO_FORMAT string is the pair (date, time of day) that   *)
(* strftime produces and strptime reads back.  Text is a sequence of       *)
(* tokens; "x in text" and text.split("::") are computed on the tokens.    *)
(***************************************************************************)
EXTENDS Integers, Sequences, FiniteSets, TLC

\* ------------------------------------------------------------------ bounds
MaxTick == 4
TicksPerDay == 2
MaxProducts == 2
MaxLines == 2
MaxRecords == 3
MaxTimes == 4
MaxPaths == 2
MaxDays == 16

StderrCapacity == 1
StdoutCapacity == 3

\* --------------------------------------------------------- program constants
TimeoutFloor == 300
SecondsPerDay == 20

VARIABLES
    \* ---- Cumulus (class attributes and inputs of one execute call)
    use_cache,        \* the argument of execute
    publish,          \* Cumulus.publish: "gui" (a callback) or "None"
    product_ids,      \* configurations["product_ids"]
    products_meta,    \* product id -> last_forecast_version
    dss_catalog,      \* product id -> existing (start, end) of its records, or NoRange
    requested,        \* the window go_configuration was given: <<after, before>>
    go_config,        \* Cumulus.go_config
    pc,               \* position in execute
    idx,              \* adjust_dates_by_cache: index of the product the loop is at
    after,            \* adjust_dates_by_cache: local after
    before,           \* adjust_dates_by_cache: local before
    consulted,        \* product ids whose stored range the loop has looked up
    outcome,          \* how execute ended
    converted,        \* arguments of the jutil.convert_dss calls made
    \* ---- go.get and the worker process
    proc,             \* the subprocess: "none", "running", "exited"
    stdin_writes,     \* what was written to the worker's stdin
    stdin_closed,
    stderr_pipe,      \* diagnostic lines written by the worker, not yet read
    stdout_pipe,      \* the result the worker wrote
    lines_left,       \* diagnostic lines the worker may still write
    go_stderr,        \* get: the local stderr accumulated
    go_ret,           \* get: the returned (stdout, stderr)
    events,           \* what publish was called with, in order
    last_line,        \* the line handed to __parse_go_output last
    last_events,      \* the events that call published
    deadline_passed,  \* the Timeout of the request has elapsed since the spawn
    mode,             \* how get was called: "realtime", "communicate", "popen"
    result_left,      \* what the worker has still to write to its stdout
    \* ---- Cumulus.get_metadata
    meta_loaded,      \* products_meta / watersheds_meta of the class are truthy
    orig_go_config,   \* get_metadata: the local orig_go_config
    config_at_call,   \* go_config as it was when the session's call was made
    \* ---- access_water_extract.py
    stream,           \* bytes the worker has still to write to its stdout
    pipe,             \* bytes the worker has written and the script has not read
    byte_array,       \* the accumulation buffer
    records,          \* objects handed to put_to_dss, in order
    decode_calls,     \* every buffer json.loads was called on
    sent,             \* the objects the provider sends, in order
    store,            \* objects dss.put has written, in order
    outcomes,         \* what each put_to_dss call that returned has returned
    error,            \* the exception that ended the script
    dss_open,         \* the HecDss handle of the script is open
    dpc,              \* position of the script: "loop", "done", "raised"
    \* ---- one call of a jutil function or of put_to_dss
    jcall,            \* the function called and its arguments
    jpc,              \* position of the call: "called", "opened", "returned", "raised"
    jhandles,         \* HecDss handles the call has opened and not closed
    jret              \* what the call returned or raised, and what it computed

cumulus_vars == <<use_cache, publish, product_ids, products_meta, dss_catalog,
                  requested, go_config, pc, idx, after, before, consulted,
                  outcome, converted>>
go_vars == <<proc, stdin_writes, stdin_closed, stderr_pipe, stdout_pipe,
             lines_left, go_stderr, go_ret, events, last_line, last_events,
             deadline_passed, mode, result_left>>
meta_vars == <<meta_loaded, orig_go_config, config_at_call>>
extract_vars == <<stream, pipe, byte_array, records, decode_calls, sent, store,
                  outcomes, error, dss_open, dpc>>
jutil_vars == <<jcall, jpc, jhandles, jret>>
lib_vars == <<extract_vars, jutil_vars, meta_vars>>
vars == <<cumulus_vars, go_vars, extract_vars, jutil_vars, meta_vars>>

\* ================================================================= helpers
Range(s) == {s[i] : i \in DOMAIN s}

Update(d, k, v) == [x \in DOMAIN d \cup {k} |-> IF x = k THEN v ELSE d[x]]

HasKey(d, k) == k \in DOMAIN d

\* datetime.strftime(ISO_FORMAT): a datetime (ticks) to its ISO string
strftime(t) == [date |-> t \div TicksPerDay, time |-> t % TicksPerDay]

\* datetime.strptime(s, ISO_FORMAT): an ISO string to a datetime
strptime(s) == s.date * TicksPerDay + s.time

\* timedelta.days: whole days, rounded toward minus infinity
days(delta) == delta \div TicksPerDay

Ticks == 0..MaxTick

\* (None, None): what get_existing_precip_data_range returns for an empty catalog
NoRange == <<>>

StoredRanges == {NoRange} \cup {<<s, e>> : s \in Ticks, e \in Ticks}

ValidRanges == {r \in StoredRanges : r = NoRange \/ r[1] < r[2]}

\* last_forecast_version as the metadata JSON gives it: null, a falsy value
\* that is not null (an empty string), or a version timestamp
ForecastVersions == {"None", "", "2024-01-01T06:00:00Z"}

\* ===================================================== Cumulus (cumulus.py)
\* "if product['last_forecast_version']:" (adjust_dates_by_cache): Python truthiness
IsForecastForAdjust(p) == products_meta[p] # "None" /\ products_meta[p] # ""

\* "product['last_forecast_version'] is not None" (remove_observed_products)
IsForecastForRemove(p) == products_meta[p] # "None"

\* One pass of the loop body for an observed product with a stored range:
\* the two edge tests, each against the value the locals have at that point.
AdjustAfter(a, rng) == IF rng[2] > a /\ a > rng[1] THEN rng[2] ELSE a

AdjustBefore_OneSided(b, rng) == IF b > rng[1] THEN rng[1] ELSE b

AdjustBefore(b, rng) == IF rng[2] > b /\ b > rng[1] THEN rng[1] ELSE b

\* remove_observed_products: the ids kept, in order
RECURSIVE forecast_product_ids(_)
forecast_product_ids(ids) ==
    IF ids = <<>> THEN <<>>
    ELSE IF IsForecastForRemove(Head(ids))
         THEN <<Head(ids)>> \o forecast_product_ids(Tail(ids))
         ELSE forecast_product_ids(Tail(ids))

remove_observed_products(cfg) ==
    Update(cfg, "Products", forecast_product_ids(cfg["Products"]))

\* the timeout execute derives from the resolved window
Timeout(a, b) ==
    LET totalTime == a - b
        timeout == days(totalTime) * SecondsPerDay
    IN  IF timeout < TimeoutFloor THEN TimeoutFloor ELSE timeout

\* execute, lines 106-108: "if not cls.go_config['Products']: return"
AfterRemovePc_NoReturn(cfg) == "go_get"

AfterRemovePc(cfg) == IF cfg["Products"] = <<>> THEN "returned" ELSE "go_get"

LoopPc(i) == IF i > Len(product_ids) THEN "check" ELSE "adjust"

\* execute, lines 82-99: the request is filled in; with use_cache the resolver
\* is entered (adjust_dates_by_cache parses the window into its locals).
ExecuteBegin ==
    /\ pc = "start"
    /\ go_config' = Update(Update(Update(Update(Update(go_config,
                        "StdOut", "true"),
                        "Subcommand", "grid"),
                        "Endpoint", "deprecated/anonymous_downloads"),
                        "ID", "watershed_id"),
                        "Products", product_ids)
    /\ IF use_cache
       THEN /\ after' = strptime(go_config["After"])
            /\ before' = strptime(go_config["Before"])
            /\ idx' = 1
            /\ pc' = LoopPc(1)
       ELSE /\ pc' = "go_get"
            /\ UNCHANGED <<after, before, idx>>
    /\ UNCHANGED <<use_cache, publish, product_ids, products_meta, dss_catalog,
                   requested, consulted, outcome, converted>>
    /\ UNCHANGED <<go_vars, lib_vars>>

\* adjust_dates_by_cache, one iteration of "for product_id in config['product_ids']"
AdjustStep ==
    /\ pc = "adjust"
    /\ idx <= Len(product_ids)
    /\ LET p == product_ids[idx]
           rng == dss_catalog[p]
       IN  IF IsForecastForAdjust(p)
           THEN \* continue
                /\ idx' = idx + 1
                /\ pc' = LoopPc(idx + 1)
                /\ UNCHANGED <<after, before, go_config, consulted>>
           ELSE /\ consulted' = consulted \cup {p}
                /\ IF rng = NoRange
                   THEN \* break
                        /\ pc' = "check"
                        /\ UNCHANGED <<after, before, go_config, idx>>
                   ELSE /\ after' = AdjustAfter(after, rng)
                        /\ before' = AdjustBefore(before, rng)
                        /\ go_config' = Update(Update(go_config,
                                            "After", strftime(after')),
                                            "Before", strftime(before'))
                        /\ idx' = idx + 1
                        /\ pc' = LoopPc(idx + 1)
    /\ UNCHANGED <<use_cache, publish, product_ids, products_meta, dss_catalog,
                   requested, outcome, converted>>
    /\ UNCHANGED <<go_vars, lib_vars>>

\* execute, lines 100-117: the before <= after test, remove_observed_products
\* and the early return, or the timeout.
ExecuteCheck ==
    /\ pc = "check"
    /\ LET a == strptime(go_config["After"])
           b == strptime(go_config["Before"])
       IN  IF b <= a
           THEN LET cfg == remove_observed_products(go_config)
                IN  /\ go_config' = cfg
                    /\ pc' = AfterRemovePc(cfg)
                    /\ IF AfterRemovePc(cfg) = "returned"
                       THEN outcome' = [kind |-> "Aborted"]
                       ELSE UNCHANGED outcome
           ELSE /\ go_config' = Update(go_config, "Timeout", Timeout(a, b))
                /\ pc' = "go_get"
                /\ UNCHANGED outcome
    /\ UNCHANGED <<use_cache, publish, product_ids, products_meta, dss_catalog,
                   requested, idx, after, before, consulted, converted>>
    /\ UNCHANGED <<go_vars, lib_vars>>

\* ============================================== text, as sequences of tokens
\* tokens whose characters contain the substring "error"
ErrorTokens == {"error", "0 errors"}

\* tokens that are a run of digits, and int() of each
IntTokens == {"42"}

IntOf(tok) == CASE tok = "42" -> 42

Whitespace == {"\n", " "}

\* tok in text
Contains(text, tok) == \E i \in DOMAIN text : text[i] = tok

\* "error" in text
ContainsError(text) == \E i \in DOMAIN text : text[i] \in ErrorTokens

\* text.strip()
RECURSIVE StripRight(_)
StripRight(text) ==
    IF text # <<>> /\ text[Len(text)] \in Whitespace
    THEN StripRight(SubSeq(text, 1, Len(text) - 1))
    ELSE text

RECURSIVE StripLeft(_)
StripLeft(text) ==
    IF text # <<>> /\ Head(text) \in Whitespace THEN StripLeft(Tail(text)) ELSE text

Strip(text) == StripLeft(StripRight(text))

\* text.split("::"): the parts, in order (one part when there is no separator)
RECURSIVE Split(_)
Split(text) ==
    IF ~Contains(text, "::") THEN <<text>>
    ELSE LET i == CHOOSE k \in DOMAIN text :
                      text[k] = "::" /\ \A j \in 1..(k - 1) : text[j] # "::"
         IN  <<SubSeq(text, 1, i - 1)>> \o Split(SubSeq(text, i + 1, Len(text)))

\* text.split("::")[-1]
SplitLast(text) == LET parts == Split(text) IN parts[Len(parts)]

\* ================================================== go (go/__init__.py)
\* re.compile(r'\w*Progress: (?P<progress>\d+)\w*').search(go_str): the places
\* where the marker is followed by digits
ProgressMatches(go_str) ==
    {i \in DOMAIN go_str :
        go_str[i] = "Progress:" /\ i < Len(go_str) /\ go_str[i + 1] \in IntTokens}

\* prog_re.group('progress') of the first match
ProgressGroup(go_str) ==
    LET i == CHOOSE k \in ProgressMatches(go_str) :
                 \A j \in ProgressMatches(go_str) : k <= j
    IN  go_str[i + 1]

\* __parse_go_output raises (prog_re is None) when the marker is there and the
\* pattern does not match
ParseRaises(go_str) ==
    Contains(go_str, "Progress:") /\ ProgressMatches(go_str) = {}

\* __parse_go_output: the publish calls it makes, in order
parse_go_output(go_str) ==
    LET progress == IF Contains(go_str, "Progress:")
                    THEN <<[kind |-> "Progress", percent |-> IntOf(ProgressGroup(go_str))]>>
                    ELSE <<>>
        log == IF Contains(go_str, "Status: INITIATED")
               THEN <<>>
               ELSE <<[kind |-> "Log", text |-> go_str]>>
    IN  progress \o log

\* the diagnostic lines the worker may write (each is followed by a newline)
DiagLines == {<<"Progress:", "42">>,
              <<"Status: INITIATED">>,
              <<"Downloading">>,
              <<"error", "::", "disk full">>,
              <<"0 errors">>,
              <<"Progress:", "done">>}

\* the result strings the worker may write before it exits
ResultStrings == {<<"grid", "::", "/tmp/cumulus.dss">>}

\* the replies to a "get" request: a JSON list, an empty JSON list, no JSON
MetaReplies == {<<"[", "{}", "]">>, <<"[", "]">>, <<"<html>">>}

\* what the worker may write to its stdout for the request it has read
RepliesTo(go_flags) ==
    IF go_flags["Subcommand"] = "get" THEN MetaReplies ELSE ResultStrings

\* get, line 59 (and communicate(input=...), line 69): what is written to stdin
RequestWrites_Twice(go_flags) == <<go_flags, go_flags>>

RequestWrites(go_flags) == <<go_flags>>

\* the publish calls of one line are made as the line is parsed
Publish_Held(evs, new) == evs

Publish(evs, new) == evs \o new

\* get, lines 47-61: the process is started, the request is written to its
\* stdin, and stdin is closed
GoStart ==
    /\ pc = "go_get"
    /\ proc = "none"
    /\ proc' = "running"
    /\ mode' = "realtime"
    /\ stdin_writes' = stdin_writes \o RequestWrites(go_config)
    /\ stdin_closed' = TRUE
    /\ go_stderr' = <<>>
    /\ pc' = "reading"
    /\ UNCHANGED <<use_cache, publish, product_ids, products_meta, dss_catalog,
                   requested, go_config, idx, after, before, consulted, outcome,
                   converted>>
    /\ UNCHANGED <<stderr_pipe, stdout_pipe, lines_left, go_ret, events,
                   last_line, last_events, deadline_passed>>
    /\ UNCHANGED lib_vars
    /\ UNCHANGED result_left

\* get, lines 62-67: one iteration of "for line in subprocess_popen.stderr"
GoReadLine ==
    /\ pc = "reading"
    /\ stderr_pipe # <<>>
    /\ LET line == Head(stderr_pipe)
           go_str == Strip(line)
       IN  /\ stderr_pipe' = Tail(stderr_pipe)
           /\ IF publish # "None"
              THEN IF ParseRaises(go_str)
                   THEN /\ pc' = "raised"
                        /\ outcome' = [kind |-> "Raised", error |-> "AttributeError"]
                        /\ last_line' = go_str
                        /\ last_events' = <<>>
                        /\ UNCHANGED <<events, go_stderr>>
                   ELSE /\ events' = Publish(events, parse_go_output(go_str))
                        /\ last_line' = go_str
                        /\ last_events' = parse_go_output(go_str)
                        /\ go_stderr' = go_stderr \o line
                        /\ UNCHANGED <<pc, outcome>>
              ELSE \* print(line.strip().decode())
                   /\ go_stderr' = go_stderr \o line
                   /\ UNCHANGED <<pc, outcome, events, last_line, last_events>>
    /\ UNCHANGED <<use_cache, publish, product_ids, products_meta, dss_catalog,
                   requested, go_config, idx, after, before, consulted, converted>>
    /\ UNCHANGED <<proc, stdin_writes, stdin_closed, stdout_pipe, lines_left,
                   go_ret, deadline_passed>>
    /\ UNCHANGED lib_vars
    /\ UNCHANGED mode
    /\ UNCHANGED result_left

\* get, line 68: stderr is at end of stream; stdout is read to its end and the
\* pair is returned
GoReadEOF ==
    /\ pc = "reading"
    /\ stderr_pipe = <<>>
    /\ proc = "exited"
    /\ go_ret' = <<stdout_pipe, go_stderr>>
    /\ pc' = "finish"
    /\ UNCHANGED <<use_cache, publish, product_ids, products_meta, dss_catalog,
                   requested, go_config, idx, after, before, consulted, outcome,
                   converted>>
    /\ UNCHANGED <<proc, stdin_writes, stdin_closed, stderr_pipe, stdout_pipe,
                   lines_left, go_stderr, events, last_line, last_events,
                   deadline_passed>>
    /\ UNCHANGED lib_vars
    /\ UNCHANGED mode
    /\ UNCHANGED result_left

\* execute, lines 126-149: the run's outcome from what get returned
ExecuteFinish ==
    /\ pc = "finish"
    /\ LET stdout == go_ret[1]
           stderr == go_ret[2]
       IN  IF ContainsError(stderr)
           THEN /\ outcome' = [kind |-> "Failed", message |-> SplitLast(stderr)]
                /\ pc' = "returned"
                /\ UNCHANGED converted
           ELSE IF Len(Split(stdout)) # 2
                THEN \* "_, file_path = stdout.split('::')" raises ValueError
                     /\ outcome' = [kind |-> "Raised", error |-> "ValueError"]
                     /\ pc' = "raised"
                     /\ UNCHANGED converted
                ELSE /\ converted' = Append(converted, Split(stdout)[2])
                     /\ outcome' = [kind |-> "Completed", path |-> Split(stdout)[2]]
                     /\ pc' = "returned"
    /\ UNCHANGED <<use_cache, publish, product_ids, products_meta, dss_catalog,
                   requested, go_config, idx, after, before, consulted>>
    /\ UNCHANGED <<go_vars, lib_vars>>

\* ---------------------------------------- get without realtime; get_metadata
\* the text of the lines in a pipe
RECURSIVE ConcatLines(_)
ConcatLines(lines) ==
    IF lines = <<>> THEN <<>> ELSE Head(lines) \o ConcatLines(Tail(lines))

\* json.loads(text) returns a list
IsJsonList(text) == Len(text) >= 2 /\ Head(text) = "[" /\ text[Len(text)] = "]"

\* bool(json.loads(text)): the list is not empty
Truthy(text) == Len(text) > 2

\* get_metadata, "finally: cls.go_config = orig_go_config"
RestoredConfig_None(orig, cfg) == cfg

RestoredConfig(orig, cfg) == orig

\* get, lines 47-55 and 69: the process is started and communicate writes the
\* request to its stdin and closes it
GoCommunicate ==
    /\ pc \in {"meta_products", "meta_watersheds"}
    /\ proc \in {"none", "exited"}
    /\ proc' = "running"
    /\ mode' = "communicate"
    /\ stdin_writes' = RequestWrites(go_config)
    /\ stdin_closed' = TRUE
    /\ stderr_pipe' = <<>>
    /\ stdout_pipe' = <<>>
    /\ go_stderr' = <<>>
    /\ go_ret' = <<>>
    /\ pc' = IF pc = "meta_products" THEN "comm_products" ELSE "comm_watersheds"
    /\ UNCHANGED <<use_cache, publish, product_ids, products_meta, dss_catalog,
                   requested, go_config, idx, after, before, consulted, outcome,
                   converted>>
    /\ UNCHANGED <<lines_left, events, last_line, last_events, deadline_passed>>
    /\ UNCHANGED lib_vars
    /\ UNCHANGED result_left

\* get, lines 69-70: communicate returns the two outputs once the worker has
\* closed them
GoCommunicateReturn ==
    /\ pc \in {"comm_products", "comm_watersheds"}
    /\ proc = "exited"
    /\ go_stderr' = ConcatLines(stderr_pipe)
    /\ go_ret' = <<stdout_pipe, ConcatLines(stderr_pipe)>>
    /\ stderr_pipe' = <<>>
    /\ pc' = IF pc = "comm_products" THEN "after_products" ELSE "after_watersheds"
    /\ UNCHANGED <<use_cache, publish, product_ids, products_meta, dss_catalog,
                   requested, go_config, idx, after, before, consulted, outcome,
                   converted>>
    /\ UNCHANGED <<proc, stdin_writes, stdin_closed, stdout_pipe, lines_left,
                   events, last_line, last_events, deadline_passed, mode>>
    /\ UNCHANGED lib_vars
    /\ UNCHANGED result_left

\* get, line 72, out_err false: the process is started and returned to the
\* caller; nothing is written to it
GoReturnPopen ==
    /\ pc = "get_start"
    /\ proc = "none"
    /\ proc' = "running"
    /\ mode' = "popen"
    /\ go_ret' = <<"subprocess_popen">>
    /\ pc' = "returned"
    /\ outcome' = [kind |-> "Popen"]
    /\ UNCHANGED <<use_cache, publish, product_ids, products_meta, dss_catalog,
                   requested, go_config, idx, after, before, consulted, converted>>
    /\ UNCHANGED <<stdin_writes, stdin_closed, stderr_pipe, stdout_pipe,
                   lines_left, go_stderr, events, last_line, last_events,
                   deadline_passed>>
    /\ UNCHANGED lib_vars
    /\ UNCHANGED result_left

\* get_metadata, lines 183-193: the cached return, or the copy of go_config
\* and the first request
MetaBegin ==
    /\ pc = "meta_start"
    /\ IF meta_loaded.products /\ meta_loaded.watersheds
       THEN /\ pc' = "returned"
            /\ outcome' = [kind |-> "Metadata"]
            /\ UNCHANGED <<go_config, orig_go_config>>
       ELSE /\ orig_go_config' = go_config
            /\ go_config' = Update(Update(Update(go_config,
                                "StdOut", "true"),
                                "Subcommand", "get"),
                                "Endpoint", "products")
            /\ pc' = "meta_products"
            /\ UNCHANGED outcome
    /\ UNCHANGED <<use_cache, publish, product_ids, products_meta, dss_catalog,
                   requested, idx, after, before, consulted, converted>>
    /\ UNCHANGED <<meta_loaded, config_at_call>>
    /\ UNCHANGED <<go_vars, extract_vars, jutil_vars>>

\* get_metadata, lines 195-199 (and the finally clause on a raise)
MetaAfterProducts ==
    /\ pc = "after_products"
    /\ LET ps_out == go_ret[1]
           stderr == go_ret[2]
       IN  IF ContainsError(stderr)
           THEN /\ outcome' = [kind |-> "MetaRaised", error |-> "CumulusConnectionError"]
                /\ go_config' = RestoredConfig(orig_go_config, go_config)
                /\ pc' = "raised"
                /\ UNCHANGED meta_loaded
           ELSE IF ~IsJsonList(ps_out)
           THEN /\ outcome' = [kind |-> "MetaRaised", error |-> "ValueError"]
                /\ go_config' = RestoredConfig(orig_go_config, go_config)
                /\ pc' = "raised"
                /\ UNCHANGED meta_loaded
           ELSE /\ meta_loaded' = [meta_loaded EXCEPT !.products = Truthy(ps_out)]
                /\ go_config' = Update(go_config, "Endpoint", "watersheds")
                /\ pc' = "meta_watersheds"
                /\ UNCHANGED outcome
    /\ UNCHANGED <<use_cache, publish, product_ids, products_meta, dss_catalog,
                   requested, idx, after, before, consulted, converted>>
    /\ UNCHANGED <<orig_go_config, config_at_call>>
    /\ UNCHANGED <<go_vars, extract_vars, jutil_vars>>

\* get_metadata, lines 201-210
MetaAfterWatersheds ==
    /\ pc = "after_watersheds"
    /\ LET ws_out == go_ret[1]
           stderr == go_ret[2]
       IN  /\ go_config' = RestoredConfig(orig_go_config, go_config)
           /\ IF ContainsError(stderr)
              THEN /\ outcome' = [kind |-> "MetaRaised", error |-> "CumulusConnectionError"]
                   /\ pc' = "raised"
                   /\ UNCHANGED meta_loaded
              ELSE IF ~IsJsonList(ws_out)
              THEN /\ outcome' = [kind |-> "MetaRaised", error |-> "ValueError"]
                   /\ pc' = "raised"
                   /\ UNCHANGED meta_loaded
              ELSE /\ meta_loaded' = [meta_loaded EXCEPT !.watersheds = Truthy(ws_out)]
                   /\ outcome' = [kind |-> "Metadata"]
                   /\ pc' = "returned"
    /\ UNCHANGED <<use_cache, publish, product_ids, products_meta, dss_catalog,
                   requested, idx, after, before, consulted, converted>>
    /\ UNCHANGED <<orig_go_config, config_at_call>>
    /\ UNCHANGED <<go_vars, extract_vars, jutil_vars>>

\* ------------------------------------------------------- the worker process
\* the worker writes one diagnostic line to its stderr
WorkerWriteDiag ==
    /\ proc = "running"
    /\ lines_left > 0
    /\ \E l \in DiagLines : stderr_pipe' = Append(stderr_pipe, l \o <<"\n">>)
    /\ lines_left' = lines_left - 1
    /\ UNCHANGED <<proc, stdin_writes, stdin_closed, stdout_pipe, go_stderr,
                   go_ret, events, last_line, last_events, deadline_passed>>
    /\ UNCHANGED <<cumulus_vars, lib_vars>>
    /\ UNCHANGED mode
    /\ UNCHANGED result_left

\* the worker writes its result string to its stdout
WorkerWriteResult ==
    /\ proc = "running"
    /\ stdout_pipe = <<>>
    /\ stdin_writes # <<>>
    /\ \E r \in RepliesTo(stdin_writes[1]) : stdout_pipe' = r
    /\ UNCHANGED <<proc, stdin_writes, stdin_closed, stderr_pipe, lines_left,
                   go_stderr, go_ret, events, last_line, last_events,
                   deadline_passed>>
    /\ UNCHANGED <<cumulus_vars, lib_vars>>
    /\ UNCHANGED mode
    /\ UNCHANGED result_left

\* the worker exits: its ends of stderr and stdout are closed
WorkerExit ==
    /\ proc = "running"
    /\ proc' = "exited"
    /\ UNCHANGED <<stdin_writes, stdin_closed, stderr_pipe, stdout_pipe,
                   lines_left, go_stderr, go_ret, events, last_line,
                   last_events, deadline_passed>>
    /\ UNCHANGED <<cumulus_vars, lib_vars>>
    /\ UNCHANGED mode
    /\ UNCHANGED result_left

\* the Timeout of the request elapses while the worker is still running;
\* get holds no timer, so nothing of the orchestrator changes
DeadlineExpires ==
    /\ proc = "running"
    /\ HasKey(go_config, "Timeout")
    /\ ~deadline_passed
    /\ deadline_passed' = TRUE
    /\ UNCHANGED <<proc, stdin_writes, stdin_closed, stderr_pipe, stdout_pipe,
                   lines_left, go_stderr, go_ret, events, last_line, last_events>>
    /\ UNCHANGED <<cumulus_vars, lib_vars>>
    /\ UNCHANGED mode
    /\ UNCHANGED result_left

\* ------------------------------------- the worker process on bounded pipes
\* stderr=subprocess.PIPE and stdout=subprocess.PIPE (get, lines 53-54) are
\* operating-system pipes: a write to a full pipe blocks until the reader has
\* taken something out.  StderrCapacity counts lines, StdoutCapacity tokens.

\* a path reference of n parts
PathOf(n) == [i \in 1..n |-> "/dir"]

\* what a worker may have to write to its stdout: nothing (a failed fetch), or
\* the "::"-separated pair, its path of any length up to the pipe's capacity
PipeResults ==
    {<<>>} \cup {<<"grid", "::">> \o PathOf(n) : n \in 1..StdoutCapacity}

\* the worker writes one diagnostic line to its stderr, if the pipe has room
WorkerPipeDiag ==
    /\ proc = "running"
    /\ lines_left > 0
    /\ Len(stderr_pipe) < StderrCapacity
    /\ \E l \in DiagLines : stderr_pipe' = Append(stderr_pipe, l \o <<"\n">>)
    /\ lines_left' = lines_left - 1
    /\ UNCHANGED <<proc, stdin_writes, stdin_closed, stdout_pipe, go_stderr,
                   go_ret, events, last_line, last_events, deadline_passed,
                   mode, result_left>>
    /\ UNCHANGED <<cumulus_vars, lib_vars>>

\* the worker writes the next part of its result to its stdout, if the pipe
\* has room
WorkerPipeResult ==
    /\ proc = "running"
    /\ result_left # <<>>
    /\ Len(stdout_pipe) < StdoutCapacity
    /\ stdout_pipe' = Append(stdout_pipe, Head(result_left))
    /\ result_left' = Tail(result_left)
    /\ UNCHANGED <<proc, stdin_writes, stdin_closed, stderr_pipe, lines_left,
                   go_stderr, go_ret, events, last_line, last_events,
                   deadline_passed, mode>>
    /\ UNCHANGED <<cumulus_vars, lib_vars>>

\* the worker has written all of its result and exits: its ends of stderr
\* and stdout are closed
WorkerPipeExit ==
    /\ proc = "running"
    /\ result_left = <<>>
    /\ proc' = "exited"
    /\ UNCHANGED <<stdin_writes, stdin_closed, stderr_pipe, stdout_pipe,
                   lines_left, go_stderr, go_ret, events, last_line,
                   last_events, deadline_passed, mode, result_left>>
    /\ UNCHANGED <<cumulus_vars, lib_vars>>

\* ============================ access_water_extract.py: the byte loop
\* The bytes of the stream: "{" and "}" are the object delimiters, "k" is any
\* byte of a member of a record, "m" the bytes of a member named message.
RECURSIVE Depth(_)
Depth(buf) ==
    IF buf = <<>> THEN 0
    ELSE Depth(SubSeq(buf, 1, Len(buf) - 1))
         + (CASE buf[Len(buf)] = "{" -> 1
              [] buf[Len(buf)] = "}" -> -1
              [] OTHER -> 0)

\* json.loads(str(byte_array)) returns an object: the text is one complete
\* object, closed by its last byte and not before
IsJson(buf) ==
    /\ Len(buf) >= 2
    /\ buf[1] = "{"
    /\ Depth(buf) = 0
    /\ \A n \in 1..(Len(buf) - 1) : Depth(SubSeq(buf, 1, n)) > 0

HasMessage_Never(obj) == FALSE

\* 'message' in obj.keys(): a member of the outermost object
HasMessage(obj) ==
    \E i \in DOMAIN obj : obj[i] = "m" /\ Depth(SubSeq(obj, 1, i)) = 1

FlatRecord == <<"{", "k", "}">>
NestedRecord == <<"{", "k", "{", "k", "}", "}">>
MessageObject == <<"{", "m", "}">>
UnknownCodeRecord == <<"{", "u", "}">>
EmptySeriesRecord == <<"{", "e", "}">>
MismatchedRecord == <<"{", "x", "}">>

\* the objects a provider may send
Objects == {FlatRecord, NestedRecord, MessageObject, UnknownCodeRecord,
            EmptySeriesRecord, MismatchedRecord}

RECURSIVE Concat(_)
Concat(objs) == IF objs = <<>> THEN <<>> ELSE Head(objs) \o Concat(Tail(objs))

\* json.loads of a complete object: the dict its member bytes stand for
json_loads(buf) ==
    CASE buf[2] = "k" -> [code |-> "00065", site_number |-> "03290500",
                          times |-> <<0, 5, 10, 21>>, values |-> <<1, 1, 1, 1>>]
      [] buf[2] = "u" -> [code |-> "99999", site_number |-> "03290500",
                          times |-> <<0, 5, 10, 21>>, values |-> <<1, 1, 1, 1>>]
      [] buf[2] = "e" -> [code |-> "00065", site_number |-> "03290500",
                          times |-> <<>>, values |-> <<>>]
      [] buf[2] = "x" -> [code |-> "00065", site_number |-> "03290500",
                          times |-> <<0, 5, 10>>, values |-> <<1, 1>>]
      [] buf[2] = "m" -> [message |-> "provider error"]

\* ------------------------------------------- the regularizer and the put
\* the keys of usgs_code (USGS_EXTRACT_CODES in jutil)
usgs_code == {"00065", "00061", "00060"}

None == <<>>

Abs(n) == IF n < 0 THEN -n ELSE n

\* "time_step < timestep_min": Python 2 orders None below every number, so
\* the comparison with None is false
StepIsLess_Never(time_step, timestep) == FALSE

StepIsLess(time_step, timestep) == timestep # None /\ time_step < timestep[1]

\* the loop "for t in range(len(times) - 1)" from iteration t on
RECURSIVE timestep_loop(_, _, _)
timestep_loop(times, t, timestep) ==
    IF t > Len(times) - 1 THEN timestep
    ELSE LET time_step == Abs(times[t + 1] - times[t])
         IN  timestep_loop(times, t + 1,
                 IF StepIsLess(time_step, timestep) \/ timestep = None
                 THEN <<time_step>>
                 ELSE timestep)

\* timestep_min after the loop: None, or <<minutes>>
timestep_min(times) == timestep_loop(times, 1, None)

\* put_to_dss(site, dss): how the call ends and the interval it computed.
\* lib_ok: the TimeSeriesContainer calls of lines 102-121 accept a series whose
\* times and values differ in length; put_ok: dss.put accepts the series.
put_to_dss(site, lib_ok, put_ok) ==
    IF "code" \notin DOMAIN site
    THEN [result |-> "AttributeError", interval |-> None]
    ELSE IF site.code \notin usgs_code
    THEN [result |-> "KeyError", interval |-> None]
    ELSE LET interval == timestep_min(site.times)
         IN  IF interval = None
             THEN \* getEPartFromIntervalMinutes(None); times[0] of no times
                  [result |-> "TypeError", interval |-> interval]
             ELSE IF Len(site.times) # Len(site.values) /\ ~lib_ok
             THEN [result |-> "LibraryError", interval |-> interval]
             ELSE IF put_ok
             THEN [result |-> "saved", interval |-> interval]
             ELSE [result |-> "not saved", interval |-> interval]

NoError == [type |-> "None"]

\* the worker writes the next bytes of its output, in a chunk of any length
ProviderWrite ==
    /\ dpc = "loop"
    /\ stream # <<>>
    /\ \E n \in 1..Len(stream) :
          /\ pipe' = pipe \o SubSeq(stream, 1, n)
          /\ stream' = SubSeq(stream, n + 1, Len(stream))
    /\ UNCHANGED <<byte_array, records, decode_calls, sent, store, outcomes,
                   error, dss_open, dpc>>
    /\ UNCHANGED <<cumulus_vars, go_vars, jutil_vars, meta_vars>>

\* lines 192-200: one byte is read and appended; on an object-close byte the
\* buffer is decoded, cleared and handed to put_to_dss
ReadByte ==
    /\ dpc = "loop"
    /\ pipe # <<>>
    /\ LET b == Head(pipe)
           buf == Append(byte_array, b)
       IN  /\ pipe' = Tail(pipe)
           /\ IF b = "}"
              THEN /\ decode_calls' = Append(decode_calls, buf)
                   /\ IF ~IsJson(buf)
                      THEN \* json.loads raises ValueError
                           /\ dpc' = "raised"
                           /\ error' = [type |-> "ValueError"]
                           /\ byte_array' = buf
                           /\ UNCHANGED <<records, store, outcomes>>
                      ELSE /\ byte_array' = <<>>
                           /\ IF HasMessage(buf)
                              THEN \* raise Exception(obj['message'])
                                   /\ dpc' = "raised"
                                   /\ error' = [type |-> "Exception",
                                                message |-> json_loads(buf).message]
                                   /\ UNCHANGED <<records, store, outcomes>>
                              ELSE \* msg = put_to_dss(obj, dss)
                                   /\ records' = Append(records, buf)
                                   /\ \E lib_ok \in BOOLEAN, put_ok \in BOOLEAN :
                                        LET msg == put_to_dss(json_loads(buf), lib_ok, put_ok).result
                                        IN  IF msg = "saved"
                                            THEN /\ store' = Append(store, buf)
                                                 /\ outcomes' = Append(outcomes, msg)
                                                 /\ UNCHANGED <<dpc, error>>
                                            ELSE IF msg = "not saved"
                                            THEN /\ outcomes' = Append(outcomes, msg)
                                                 /\ UNCHANGED <<store, dpc, error>>
                                            ELSE /\ dpc' = "raised"
                                                 /\ error' = [type |-> msg]
                                                 /\ UNCHANGED <<store, outcomes>>
              ELSE /\ byte_array' = buf
                   /\ UNCHANGED <<decode_calls, records, store, outcomes, error, dpc>>
    /\ UNCHANGED <<stream, sent, dss_open>>
    /\ UNCHANGED <<cumulus_vars, go_vars, jutil_vars, meta_vars>>

\* line 202: the stream is at its end; the handle is closed
EndOfStream ==
    /\ dpc = "loop"
    /\ stream = <<>>
    /\ pipe = <<>>
    /\ dpc' = "done"
    /\ dss_open' = FALSE
    /\ UNCHANGED <<stream, pipe, byte_array, records, decode_calls, sent, store,
                   outcomes, error>>
    /\ UNCHANGED <<cumulus_vars, go_vars, jutil_vars, meta_vars>>

\* ======================================================= jutil (jutil.py)
\* put_timeseries, lines 53-104: how the try block ends and the interval it
\* computed.  check_ok: TimeSeriesMath.checkTimeSeries accepts the container;
\* put_ok: snapToRegularInterval and dss.put raise nothing.
put_timeseries(site, check_ok, put_ok) ==
    LET interval == timestep_min(site.times)
    IN  IF interval = None
        THEN \* getEPartFromIntervalMinutes(None) raises; "except Exception"
             [result |-> "not saved", interval |-> interval]
        ELSE IF ~check_ok \/ ~put_ok
        THEN [result |-> "not saved", interval |-> interval]
        ELSE [result |-> "saved", interval |-> interval]

\* get_precip_record_datetimes: the D and E parts of a pathname to datetimes;
\* an E part at 2400 is the start of the next day
get_precip_record_datetimes(path) ==
    LET e_part == IF path.e.time = TicksPerDay
                  THEN [date |-> path.e.date + 1, time |-> 0]
                  ELSE path.e
    IN  <<strptime(path.d), strptime(e_part)>>

\* a pathname whose D part is no date strptime reads
Malformed == [bad |-> "31FEB2024:0000"]

\* the loop of get_existing_precip_data_range over paths, from (start_dt, end_dt)
RECURSIVE range_loop(_, _)
range_loop(paths, rng) ==
    IF paths = <<>> THEN rng
    ELSE LET dts == get_precip_record_datetimes(Head(paths))
             start_dt == IF rng = NoRange \/ dts[1] < rng[1] THEN dts[1] ELSE rng[1]
             end_dt == IF rng = NoRange \/ dts[2] > rng[2] THEN dts[2] ELSE rng[2]
         IN  range_loop(Tail(paths), <<start_dt, end_dt>>)

\* put_timeseries, lines 49-52: the code is looked up and the file is opened
PutTimeseriesOpen ==
    /\ jpc = "called"
    /\ jcall.fn = "put_timeseries"
    /\ IF jcall.site.code \notin usgs_code
       THEN /\ jpc' = "raised"
            /\ jret' = [result |-> "KeyError", interval |-> None]
            /\ UNCHANGED jhandles
       ELSE /\ jpc' = "opened"
            /\ jhandles' = jhandles + 1
            /\ UNCHANGED jret
    /\ UNCHANGED jcall
    /\ UNCHANGED <<cumulus_vars, go_vars, extract_vars, meta_vars>>

\* put_timeseries, lines 53-104: the try block and the return
PutTimeseriesBody ==
    /\ jpc = "opened"
    /\ jcall.fn = "put_timeseries"
    /\ \E check_ok \in BOOLEAN, put_ok \in BOOLEAN :
          jret' = put_timeseries(jcall.site, check_ok, put_ok)
    /\ jpc' = "returned"
    /\ UNCHANGED <<jcall, jhandles>>
    /\ UNCHANGED <<cumulus_vars, go_vars, extract_vars, meta_vars>>

\* put_to_dss called with the script's open handle
PutToDss ==
    /\ jpc = "called"
    /\ jcall.fn = "put_to_dss"
    /\ \E lib_ok \in BOOLEAN, put_ok \in BOOLEAN :
          LET r == put_to_dss(jcall.site, lib_ok, put_ok)
          IN  /\ jret' = r
              /\ jpc' = IF r.result \in {"saved", "not saved"}
                        THEN "returned" ELSE "raised"
    /\ UNCHANGED <<jcall, jhandles>>
    /\ UNCHANGED <<cumulus_vars, go_vars, extract_vars, meta_vars>>

\* get_existing_precip_data_range, lines 194-196: the file is opened
RangeOpen ==
    /\ jpc = "called"
    /\ jcall.fn = "get_existing_precip_data_range"
    /\ jpc' = "opened"
    /\ jhandles' = jhandles + 1
    /\ UNCHANGED <<jcall, jret>>
    /\ UNCHANGED <<cumulus_vars, go_vars, extract_vars, meta_vars>>

\* get_existing_precip_data_range, lines 197-208: the catalog is scanned,
\* the handle is released in the finally clause
RangeScan ==
    /\ jpc = "opened"
    /\ jcall.fn = "get_existing_precip_data_range"
    /\ jhandles' = jhandles - 1
    /\ IF \E i \in DOMAIN jcall.paths : jcall.paths[i] = Malformed
       THEN \* strptime raises ValueError
            /\ jpc' = "raised"
            /\ jret' = [result |-> "ValueError", range |-> NoRange]
       ELSE /\ jpc' = "returned"
            /\ jret' = [result |-> "returned",
                        range |-> range_loop(jcall.paths, NoRange)]
    /\ UNCHANGED jcall
    /\ UNCHANGED <<cumulus_vars, go_vars, extract_vars, meta_vars>>

\* ========================================================== specifications
Windows == {w \in Ticks \X Ticks : w[1] < w[2]}

\* Cumulus after go_configuration and cumulus_configuration, before execute,
\* its inputs drawn from the given sets
CumulusInit(windows, versions, ranges, caches, callbacks) ==
    /\ use_cache \in caches
    /\ publish \in callbacks
    /\ \E n \in 1..MaxProducts :
          /\ product_ids = [i \in 1..n |-> i]
          /\ products_meta \in [1..n -> versions]
          /\ dss_catalog \in [1..n -> ranges]
    /\ requested \in windows
    /\ go_config = [After |-> strftime(requested[1]), Before |-> strftime(requested[2])]
    /\ pc = "start"
    /\ idx = 0
    /\ after = 0
    /\ before = 0
    /\ consulted = {}
    /\ outcome = [kind |-> "None"]
    /\ converted = <<>>

GoInit ==
    /\ proc = "none"
    /\ stdin_writes = <<>>
    /\ stdin_closed = FALSE
    /\ stderr_pipe = <<>>
    /\ stdout_pipe = <<>>
    /\ lines_left = MaxLines
    /\ go_stderr = <<>>
    /\ go_ret = <<>>
    /\ events = <<>>
    /\ last_line = <<>>
    /\ last_events = <<>>
    /\ deadline_passed = FALSE
    /\ mode = "none"
    /\ result_left = <<>>

RECURSIVE SeqsUpTo(_, _)
SeqsUpTo(S, n) ==
    IF n = 0 THEN {<<>>}
    ELSE LET shorter == SeqsUpTo(S, n - 1)
         IN  shorter \cup {Append(q, x) : q \in shorter, x \in S}

\* the script after HecDss.open (line 190), the provider's objects to come
ExtractInit ==
    /\ sent \in SeqsUpTo(Objects, MaxRecords)
    /\ stream = Concat(sent)
    /\ pipe = <<>>
    /\ byte_array = <<>>
    /\ records = <<>>
    /\ decode_calls = <<>>
    /\ store = <<>>
    /\ outcomes = <<>>
    /\ error = NoError
    /\ dss_open = TRUE
    /\ dpc = "loop"

\* a script that is not run
ExtractIdle ==
    /\ sent = <<>>
    /\ stream = <<>>
    /\ pipe = <<>>
    /\ byte_array = <<>>
    /\ records = <<>>
    /\ decode_calls = <<>>
    /\ store = <<>>
    /\ outcomes = <<>>
    /\ error = NoError
    /\ dss_open = FALSE
    /\ dpc = "idle"

\* the metadata is downloaded and get_metadata is not being called
MetaIdle ==
    /\ meta_loaded = [products |-> TRUE, watersheds |-> TRUE]
    /\ orig_go_config = <<>>
    /\ config_at_call = go_config

\* no jutil function is being called
JutilIdle ==
    /\ jcall = [fn |-> "none"]
    /\ jpc = "idle"
    /\ jhandles = 0
    /\ jret = [result |-> "none"]

\* ---- the resolver of execute with use_cache (lines 82-117), over every
\* window, product metadata and stored range of the bounds; the product
\* metadata is taken as already downloaded (get_metadata returns its cache)
InitResolve ==
    /\ CumulusInit(Windows, ForecastVersions, ValidRanges, {TRUE}, {"gui"})
    /\ GoInit
    /\ ExtractIdle
    /\ JutilIdle
    /\ MetaIdle

NextResolve ==
    \/ ExecuteBegin
    \/ AdjustStep
    \/ ExecuteCheck

SpecResolve == InitResolve /\ [][NextResolve]_vars

\* ---- the same resolver over every window and stored range, each product
\* observed (no forecast version) or a forecast (a version timestamp)
InitAdjust ==
    /\ CumulusInit(Windows, {"None", "2024-01-01T06:00:00Z"}, ValidRanges, {TRUE}, {"gui"})
    /\ GoInit
    /\ ExtractIdle
    /\ JutilIdle
    /\ MetaIdle

SpecAdjust == InitAdjust /\ [][NextResolve]_vars

\* ---- a whole execute with its worker: the window in the middle of the time
\* axis, each product a forecast or not, stored over all of the axis or not at all
RunWindows == {<<1, MaxTick - 1>>}

RunVersions == {"None", "2024-01-01T06:00:00Z"}

RunRanges == {NoRange, <<0, MaxTick>>}

\* go_config as go_configuration set it for the window w, and as an execute
\* for that window has left it
BaseConfig(w) == [After |-> strftime(w[1]), Before |-> strftime(w[2])]

UsedConfig(w) ==
    Update(Update(Update(BaseConfig(w),
        "StdOut", "true"),
        "Subcommand", "grid"),
        "Endpoint", "deprecated/anonymous_downloads")

\* Cumulus with one observed product configured, at the position entry
CumulusAt(entry) ==
    /\ use_cache = FALSE
    /\ publish = "gui"
    /\ product_ids = <<1>>
    /\ products_meta = [i \in {1} |-> "None"]
    /\ dss_catalog = [i \in {1} |-> NoRange]
    /\ requested \in RunWindows
    /\ go_config \in {BaseConfig(requested), UsedConfig(requested)}
    /\ pc = entry
    /\ idx = 0
    /\ after = 0
    /\ before = 0
    /\ consulted = {}
    /\ outcome = [kind |-> "None"]
    /\ converted = <<>>

\* a call of get_metadata, with each of the two class attributes downloaded or not
MetaSession ==
    /\ CumulusAt("meta_start")
    /\ meta_loaded \in [products : BOOLEAN, watersheds : BOOLEAN]
    /\ orig_go_config = <<>>
    /\ config_at_call = go_config

\* a call of go.get(go_config, out_err=False)
GetSession ==
    /\ CumulusAt("get_start")
    /\ MetaIdle

\* one session: an execute, a get_metadata, or a get with out_err false
Init ==
    /\ \/ CumulusInit(RunWindows, RunVersions, RunRanges, BOOLEAN, {"gui", "None"})
          /\ MetaIdle
       \/ MetaSession
       \/ GetSession
    /\ GoInit
    /\ ExtractIdle
    /\ JutilIdle

Next ==
    \/ ExecuteBegin
    \/ AdjustStep
    \/ ExecuteCheck
    \/ GoStart
    \/ GoReadLine
    \/ GoReadEOF
    \/ ExecuteFinish
    \/ MetaBegin
    \/ GoCommunicate
    \/ GoCommunicateReturn
    \/ MetaAfterProducts
    \/ MetaAfterWatersheds
    \/ GoReturnPopen
    \/ WorkerWriteDiag
    \/ WorkerWriteResult
    \/ WorkerExit
    \/ DeadlineExpires

Spec == Init /\ [][Next]_vars

\* ---- the resolver of execute over windows of up to MaxDays days, for one
\* observed product with nothing stored
LongWindows ==
    {w \in (0..(MaxDays * TicksPerDay)) \X (0..(MaxDays * TicksPerDay)) : w[1] < w[2]}

InitTimeout ==
    /\ CumulusInit(LongWindows, {"None"}, {NoRange}, {TRUE}, {"gui"})
    /\ product_ids = <<1>>
    /\ GoInit
    /\ ExtractIdle
    /\ JutilIdle
    /\ MetaIdle

SpecTimeout == InitTimeout /\ [][NextResolve]_vars

\* ---- the byte loop of access_water_extract.py
InitExtract ==
    /\ CumulusInit({<<0, 1>>}, {"None"}, {NoRange}, {FALSE}, {"None"})
    /\ product_ids = <<1>>
    /\ GoInit
    /\ ExtractInit
    /\ JutilIdle
    /\ MetaIdle

NextExtract ==
    \/ ProviderWrite
    \/ ReadByte
    \/ EndOfStream

SpecExtract == InitExtract /\ [][NextExtract]_vars

\* ---- one call of put_timeseries, of put_to_dss or of
\* get_existing_precip_data_range, over the series and the catalogs of the bounds
TimeValues == {0, 5, 10, 21}

Ones(n) == [i \in 1..n |-> 1]

\* a site object: a code of the table or not, times in any order, and as
\* many values as times or one fewer
Sites ==
    UNION {{[code |-> c, site_number |-> "03290500", times |-> ts, values |-> Ones(n)] :
               c \in {"00065", "99999"},
               n \in {Len(ts), Len(ts) - 1} \cap Nat} :
           ts \in SeqsUpTo(TimeValues, MaxTimes)}

\* pathnames of a catalog: their D and E parts
PathNames ==
    {[d |-> strftime(0), e |-> strftime(1)],
     [d |-> strftime(1), e |-> [date |-> 0, time |-> TicksPerDay]],
     [d |-> strftime(TicksPerDay), e |-> strftime(TicksPerDay + 1)],
     Malformed}

JutilCalls ==
    {[fn |-> f, site |-> s] : f \in {"put_timeseries", "put_to_dss"}, s \in Sites}
    \cup {[fn |-> "get_existing_precip_data_range", paths |-> ps] :
              ps \in SeqsUpTo(PathNames, MaxPaths)}

InitJutil ==
    /\ CumulusInit({<<0, 1>>}, {"None"}, {NoRange}, {FALSE}, {"None"})
    /\ product_ids = <<1>>
    /\ GoInit
    /\ ExtractIdle
    /\ MetaIdle
    /\ jcall \in JutilCalls
    /\ jpc = "called"
    /\ jhandles = 0
    /\ jret = [result |-> "none"]

NextJutil ==
    \/ PutTimeseriesOpen
    \/ PutTimeseriesBody
    \/ PutToDss
    \/ RangeOpen
    \/ RangeScan

SpecJutil == InitJutil /\ [][NextJutil]_vars

\* ---- an execute without the resolver, its get in realtime mode, and a
\* worker that writes to pipes of bounded capacity
InitPipes ==
    /\ CumulusInit({<<0, 1>>}, {"None"}, {NoRange}, {FALSE}, {"gui", "None"})
    /\ product_ids = <<1>>
    /\ proc = "none"
    /\ stdin_writes = <<>>
    /\ stdin_closed = FALSE
    /\ stderr_pipe = <<>>
    /\ stdout_pipe = <<>>
    /\ lines_left = MaxLines
    /\ go_stderr = <<>>
    /\ go_ret = <<>>
    /\ events = <<>>
    /\ last_line = <<>>
    /\ last_events = <<>>
    /\ deadline_passed = FALSE
    /\ mode = "none"
    /\ result_left \in PipeResults
    /\ ExtractIdle
    /\ JutilIdle
    /\ MetaIdle

NextPipes ==
    \/ ExecuteBegin
    \/ GoStart
    \/ GoReadLine
    \/ GoReadEOF
    \/ ExecuteFinish
    \/ WorkerPipeDiag
    \/ WorkerPipeResult
    \/ WorkerPipeExit

SpecPipes == InitPipes /\ [][NextPipes]_vars

\* ================================================================== claims
\* execute has left the resolver: the request in go_config is the one it
\* passes on, or it has returned
Resolved == use_cache /\ pc \notin {"start", "adjust", "check"}

Observed(p) == products_meta[p] = "None"

ProductsOf(cfg) == Range(cfg["Products"])

\* the stored range of p contains the requested window, equality included
Covers(p) ==
    /\ dss_catalog[p] # NoRange
    /\ dss_catalog[p][1] <= requested[1]
    /\ dss_catalog[p][2] >= requested[2]

\* the stored range of p does not overlap the non-empty window <<a, b>>
NonOverlapping(p, a, b) ==
    /\ dss_catalog[p] # NoRange
    /\ a < b
    /\ (dss_catalog[p][2] <= a \/ dss_catalog[p][1] >= b)

\* C1: for an observed product whose stored range starts at or before the
\* requested After (exactly at After included) and ends strictly inside the
\* requested window, the resolved window has After equal to the stored range's
\* end and Before unchanged.  Stated for a request of that one product.
C1_AfterMovesToStoredEnd ==
    (/\ Resolved
     /\ Len(product_ids) = 1
     /\ Observed(1)
     /\ dss_catalog[1] # NoRange
     /\ dss_catalog[1][1] <= requested[1]
     /\ requested[1] < dss_catalog[1][2]
     /\ dss_catalog[1][2] < requested[2])
    => /\ go_config["After"] = strftime(dss_catalog[1][2])
       /\ go_config["Before"] = strftime(requested[2])

\* C1, the case the code answers differently: the stored range starts exactly
\* at the requested After and ends inside the window, and After has not moved
C1_Diverges ==
    /\ Resolved
    /\ Len(product_ids) = 1
    /\ Observed(1)
    /\ dss_catalog[1] # NoRange
    /\ dss_catalog[1][1] = requested[1]
    /\ requested[1] < dss_catalog[1][2]
    /\ dss_catalog[1][2] < requested[2]
    /\ go_config["After"] = strftime(requested[1])
    /\ go_config["Before"] = strftime(requested[2])
    /\ pc = "go_get"

\* C2: every observed product whose stored range fully contains the requested
\* window (start <= After and end >= Before, equality included) is dropped
\* from the Products of the resolved request, and every other requested product
\* stays in scope.
C2_CoveredProductDropped ==
    Resolved =>
        \A p \in Range(product_ids) :
            (Observed(p) /\ Covers(p)) =>
                /\ p \notin ProductsOf(go_config)
                /\ \A q \in Range(product_ids) :
                       ~(Observed(q) /\ Covers(q)) => q \in ProductsOf(go_config)

\* C2, the case the code answers differently: the stored range is exactly the
\* requested window, and the product is requested again over all of it
C2_Diverges ==
    /\ Resolved
    /\ pc = "go_get"
    /\ Len(product_ids) = 1
    /\ Observed(1)
    /\ dss_catalog[1] = requested
    /\ go_config["Products"] = <<1>>
    /\ go_config["After"] = strftime(requested[1])
    /\ go_config["Before"] = strftime(requested[2])

\* C3: an observed product with no stored range leaves the window unchanged
\* and is still in the Products of the request execute passes to the worker,
\* whatever the stored ranges of the products listed before or after it.
C3_UnstoredProductKept ==
    Resolved =>
        \A p \in Range(product_ids) :
            (Observed(p) /\ dss_catalog[p] = NoRange) =>
                /\ pc # "returned"
                /\ p \in ProductsOf(go_config)

\* C3, the case the code answers differently: the first product is stored
\* over more than the window, the second has nothing stored, and execute
\* returns without a fetch
C3_Diverges ==
    /\ pc = "returned"
    /\ outcome = [kind |-> "Aborted"]
    /\ Len(product_ids) = 2
    /\ Observed(1) /\ Observed(2)
    /\ dss_catalog[1] # NoRange
    /\ dss_catalog[1][1] < requested[1]
    /\ dss_catalog[1][2] > requested[2]
    /\ dss_catalog[2] = NoRange
    /\ consulted = {1, 2}
    /\ go_config["Products"] = <<>>

\* C4: forecast products are never used to shrink the window and are never
\* removed from Products, and both operations classify the same products as
\* forecasts: no product remove_observed_products keeps as a forecast has had
\* its stored range looked up by adjust_dates_by_cache, and every forecast is
\* in the Products of the request passed on.
C4_ForecastNeverConsulted ==
    /\ \A p \in consulted : ~IsForecastForRemove(p)
    /\ pc = "go_get" =>
           \A p \in Range(product_ids) :
               IsForecastForRemove(p) => p \in ProductsOf(go_config)

\* C4, the case the code answers differently: a product whose
\* last_forecast_version is falsy and not None has emptied the window with its
\* stored range and is then kept by remove_observed_products as a forecast
C4_Diverges ==
    /\ pc = "go_get"
    /\ use_cache
    /\ product_ids = <<1>>
    /\ products_meta[1] = ""
    /\ consulted = {1}
    /\ strptime(go_config["Before"]) <= strptime(go_config["After"])
    /\ go_config["Products"] = <<1>>

\* C5: for an observed product whose stored range does not overlap the
\* window being resolved (stored end <= After or stored start >= Before, with
\* After < Before), the pass of adjust_dates_by_cache over that product leaves
\* After and Before as they were, in its locals and in go_config; for the
\* first product consulted these are the requested values.
C5_NonOverlapUnchanged ==
    [][(/\ pc = "adjust"
        /\ idx <= Len(product_ids)
        /\ ~IsForecastForAdjust(product_ids[idx])
        /\ NonOverlapping(product_ids[idx], after, before))
       => /\ after' = after
          /\ before' = before
          /\ go_config'["After"] = strftime(after)
          /\ go_config'["Before"] = strftime(before)
          /\ consulted = {} =>
                 /\ go_config'["After"] = strftime(requested[1])
                 /\ go_config'["Before"] = strftime(requested[2])]_vars

\* C5 witness: the loop has gone over a first product that is observed and
\* whose stored range lies after the requested window, and a second one whose
\* stored range lies before it
C5_Witness ==
    /\ pc = "check"
    /\ consulted = {1, 2}
    /\ NonOverlapping(1, requested[1], requested[2])
    /\ dss_catalog[1][1] >= requested[2]
    /\ NonOverlapping(2, requested[1], requested[2])
    /\ dss_catalog[2][2] <= requested[1]
    /\ go_config["After"] = strftime(requested[1])
    /\ go_config["Before"] = strftime(requested[2])

\* C6: with use_cache, if the resolved window is empty (Before <= After) and
\* no products remain in scope, the fetch is skipped: execute has returned, no
\* worker process was started, nothing was written to a worker and
\* convert_dss was not called.
C6_EmptyFetchSkipped ==
    (/\ Resolved
     /\ strptime(go_config["Before"]) <= strptime(go_config["After"])
     /\ go_config["Products"] = <<>>)
    => /\ pc = "returned"
       /\ proc = "none"
       /\ stdin_writes = <<>>
       /\ converted = <<>>

\* C6 witness: execute returned early for a request whose observed products
\* are all stored
C6_Witness ==
    /\ pc = "returned"
    /\ outcome = [kind |-> "Aborted"]
    /\ go_config["Products"] = <<>>
    /\ product_ids # <<>>

\* C7: a line matching "Progress: <int>" gives the event Progress(int) and no
\* Log event; a "Status: INITIATED" line gives no event; any other line gives
\* exactly one Log event carrying the line.
C7_OneEventPerLine ==
    (last_line # <<>> /\ ~ParseRaises(last_line)) =>
        IF ProgressMatches(last_line) # {}
        THEN last_events =
                 <<[kind |-> "Progress", percent |-> IntOf(ProgressGroup(last_line))]>>
        ELSE IF Contains(last_line, "Status: INITIATED")
             THEN last_events = <<>>
             ELSE last_events = <<[kind |-> "Log", text |-> last_line]>>

\* C7, the case the code answers differently: the line "Progress: 42" has
\* been published as Progress(42) and again as a Log event
C7_Diverges ==
    /\ last_line = <<"Progress:", "42">>
    /\ last_events = <<[kind |-> "Progress", percent |-> 42],
                       [kind |-> "Log", text |-> <<"Progress:", "42">>]>>

\* C8: a fetch run ends Failed exactly when the accumulated diagnostic text
\* contains "error", with the text after the last "::" as its message; in
\* every other case it ends Completed with the second element of the
\* "::"-separated result string as the artifact path.
C8_FailedIffError ==
    (mode = "realtime" /\ pc \in {"returned", "raised"} /\ go_ret # <<>>) =>
        IF ContainsError(go_ret[2])
        THEN outcome = [kind |-> "Failed", message |-> SplitLast(go_ret[2])]
        ELSE /\ outcome["kind"] = "Completed"
             /\ Len(Split(go_ret[1])) >= 2
             /\ outcome = [kind |-> "Completed", path |-> Split(go_ret[1])[2]]

\* C8, the case the code answers differently: the worker exited with nothing
\* on stderr and nothing on stdout, and execute ended in a ValueError
C8_Diverges ==
    /\ pc = "raised"
    /\ go_ret = <<<<>>, <<>>>>
    /\ outcome = [kind |-> "Raised", error |-> "ValueError"]
    /\ converted = <<>>

\* C9: if the worker is still running when the Timeout of the request
\* expires, the run ends Failed(Timeout) and the worker has been terminated;
\* the orchestrator does not go on to another outcome past the deadline.
C9_TimeoutFailsRun ==
    (deadline_passed /\ pc \in {"returned", "raised"}) =>
        outcome = [kind |-> "Failed", message |-> <<"Timeout">>]

\* C9, the case the code answers differently: the deadline passed while the
\* worker was running, get went on reading, and the run ended Completed
C9_Diverges ==
    /\ deadline_passed
    /\ pc = "returned"
    /\ outcome["kind"] = "Completed"
    /\ go_config["Timeout"] = TimeoutFloor

\* the bytes of the worker's output the script has read
BytesRead == Len(Concat(sent)) - Len(stream) - Len(pipe)

\* C10: the buffer is decoded only when the nesting depth is back at zero:
\* json.loads is never called on an incomplete prefix of an object, and by the
\* last closing byte of each record sent (a nested one included) exactly that
\* record has been emitted.
C10_DecodeAtDepthZero ==
    /\ \A i \in DOMAIN decode_calls : IsJson(decode_calls[i])
    /\ \A n \in 1..Len(sent) :
           (/\ \A j \in 1..n : ~HasMessage(sent[j])
            /\ BytesRead >= Len(Concat(SubSeq(sent, 1, n))))
           => /\ Len(records) >= n
              /\ records[n] = sent[n]

\* C10, the case the code answers differently: a record with a nested object
\* is decoded at its first object-close byte, and the loop ends in a ValueError
C10_Diverges ==
    /\ sent = <<NestedRecord>>
    /\ dpc = "raised"
    /\ decode_calls = <<SubSeq(NestedRecord, 1, 5)>>
    /\ ~IsJson(decode_calls[1])
    /\ records = <<>>

\* the records dss.put accepted among those handed to put_to_dss
RECURSIVE Saved(_, _)
Saved(recs, outs) ==
    IF recs = <<>> \/ outs = <<>> THEN <<>>
    ELSE IF Head(outs) = "saved"
         THEN <<Head(recs)>> \o Saved(Tail(recs), Tail(outs))
         ELSE Saved(Tail(recs), Tail(outs))

IsMessage(obj) == "message" \in DOMAIN json_loads(obj)

\* C11: for a stream of records (no message object), however the worker's
\* output is cut into chunks, the decoder never fails, the records it has
\* yielded are the first records sent, in order, the bytes read are exactly
\* those of the records yielded followed by the buffer (after a record is
\* yielded the buffer holds no byte of it), and at the end of the stream every
\* record sent has been yielded.
C11_SameRecordsAnyChunks ==
    (\A j \in DOMAIN sent : ~IsMessage(sent[j])) =>
        /\ error # [type |-> "ValueError"]
        /\ Len(records) <= Len(sent)
        /\ records = SubSeq(sent, 1, Len(records))
        /\ SubSeq(Concat(sent), 1, BytesRead) = Concat(records) \o byte_array
        /\ (dpc = "done" => records = sent)

\* C11, the case the code answers differently: a flat record and a record
\* with a nested object arrive, the second in two chunks; the first is
\* yielded, the second ends the loop in a ValueError at its first "}"
C11_Diverges ==
    /\ sent = <<FlatRecord, NestedRecord>>
    /\ dpc = "raised"
    /\ error = [type |-> "ValueError"]
    /\ records = <<FlatRecord>>
    /\ byte_array = SubSeq(NestedRecord, 1, 5)
    /\ pipe = <<>>
    /\ stream = <<"}">>

\* C12: when the decoder completes an object with a 'message' member, the
\* run ends there in an error carrying the message: it is the last object
\* decoded, it is neither handed to put_to_dss nor written to the store, and
\* the store holds exactly the records dss.put accepted before it.
C12_MessageEndsRun ==
    /\ \A i \in DOMAIN decode_calls :
          (IsJson(decode_calls[i]) /\ IsMessage(decode_calls[i])) =>
              /\ i = Len(decode_calls)
              /\ dpc = "raised"
              /\ error = [type |-> "Exception",
                          message |-> json_loads(decode_calls[i]).message]
    /\ \A r \in Range(records) \cup Range(store) : ~IsMessage(r)
    /\ store = Saved(records, outcomes)

\* C12 witness: a record was saved, then a message object ended the run with
\* a record still unread
C12_Witness ==
    /\ sent = <<FlatRecord, MessageObject, FlatRecord>>
    /\ dpc = "raised"
    /\ error = [type |-> "Exception", message |-> "provider error"]
    /\ records = <<FlatRecord>>
    /\ store = <<FlatRecord>>
    /\ Len(stream) + Len(pipe) = Len(FlatRecord)

\* C13: a record that fails regularization or whose put the store rejects
\* (an empty series, times and values of different lengths) gets a not-saved
\* outcome, no such failure ends the loop in an exception, and the records
\* after it are processed: once all bytes of a stream of records with codes
\* of the table are read, every record has an outcome.
C13_RecordFailureContained ==
    /\ error.type \notin {"TypeError", "LibraryError"}
    /\ \A n \in DOMAIN records :
          records[n] = EmptySeriesRecord =>
              /\ n <= Len(outcomes)
              /\ outcomes[n] = "not saved"
    /\ (/\ BytesRead = Len(Concat(sent))
        /\ \A j \in DOMAIN sent :
              sent[j] \in {FlatRecord, EmptySeriesRecord, MismatchedRecord})
       => Len(outcomes) = Len(sent)

\* C13, the case the code answers differently: the second of three records
\* has an empty series; put_to_dss raises outside its try block and the
\* third record is never read
C13_Diverges ==
    /\ sent = <<FlatRecord, EmptySeriesRecord, FlatRecord>>
    /\ dpc = "raised"
    /\ error = [type |-> "TypeError"]
    /\ records = <<FlatRecord, EmptySeriesRecord>>
    /\ Len(outcomes) = 1
    /\ Len(stream) + Len(pipe) = Len(FlatRecord)

\* C14: a record whose code is in no entry of the code table is skipped:
\* nothing is written to the store for it, no exception ends the loop, and
\* the records after it are processed.
C14_UnknownCodeSkipped ==
    /\ error.type # "KeyError"
    /\ UnknownCodeRecord \notin Range(store)
    /\ (/\ BytesRead = Len(Concat(sent))
        /\ \A j \in DOMAIN sent : sent[j] \in {FlatRecord, UnknownCodeRecord})
       => Len(records) = Len(sent)

\* C14, the case the code answers differently: the first record has an
\* unknown code; usgs_code[Site.code] raises KeyError and the record after it
\* is never read
C14_Diverges ==
    /\ sent = <<UnknownCodeRecord, FlatRecord>>
    /\ dpc = "raised"
    /\ error = [type |-> "KeyError"]
    /\ store = <<>>
    /\ outcomes = <<>>
    /\ Len(stream) + Len(pipe) = Len(FlatRecord)

\* C15: every store handle is released on every exit path: once the script's
\* loop has ended (end of stream, message object, or exception) its handle is
\* closed, and once a call of put_timeseries or of
\* get_existing_precip_data_range has returned or raised, it holds no handle.
C15_HandlesReleased ==
    /\ dpc \in {"done", "raised"} => ~dss_open
    /\ jpc \in {"returned", "raised"} => jhandles = 0

\* C15, the case the code answers differently: a message object ended the
\* script and its handle is still open
C15_Diverges ==
    /\ dpc = "raised"
    /\ error = [type |-> "Exception", message |-> "provider error"]
    /\ dss_open

\* the smallest distance between neighbours of times
MinGap(times) ==
    LET gaps == {Abs(times[i + 1] - times[i]) : i \in 1..(Len(times) - 1)}
    IN  CHOOSE m \in gaps : \A g \in gaps : m <= g

\* C19: for a series of at least two timestamps, the interval the loops of
\* put_timeseries and put_to_dss compute is the smallest distance between
\* neighbours, wherever the closest pair is; [0, 5, 10, 21] gives 5.
C19_IntervalIsMinGap ==
    (/\ jpc \in {"returned", "raised"}
     /\ jcall.fn \in {"put_timeseries", "put_to_dss"}
     /\ Len(jcall.site.times) >= 2
     /\ jret.result # "KeyError")
    => jret.interval = <<MinGap(jcall.site.times)>>

\* C19 witness: put_to_dss has saved the series [21, 10, 0, 5], whose
\* closest pair is the last, with interval 5
C19_Witness ==
    /\ jpc = "returned"
    /\ jcall.fn = "put_to_dss"
    /\ jcall.site.times = <<21, 10, 0, 5>>
    /\ jret = [result |-> "saved", interval |-> <<5>>]

\* C16: get_metadata leaves go_config as it found it on every exit path: the
\* cached return, the return after both downloads, and a raise of
\* CumulusConnectionError or of json.loads after either request.
C16_MetadataKeepsConfig ==
    outcome.kind \in {"Metadata", "MetaRaised"} => go_config = config_at_call

\* C16 witness: get_metadata was called with the go_config an execute had
\* left, the products were downloaded, the reply to the watersheds request was
\* no JSON, and go_config has its Subcommand and Endpoint of before again
C16_Witness ==
    /\ pc = "raised"
    /\ outcome = [kind |-> "MetaRaised", error |-> "ValueError"]
    /\ stdin_writes[1]["Endpoint"] = "watersheds"
    /\ stdin_writes[1]["Subcommand"] = "get"
    /\ config_at_call = UsedConfig(requested)
    /\ go_config["Subcommand"] = "grid"
    /\ go_config["Endpoint"] = "deprecated/anonymous_downloads"

\* the events of the lines of a diagnostic text, in order
RECURSIVE EventsOf(_)
EventsOf(text) ==
    IF ~Contains(text, "\n") THEN <<>>
    ELSE LET n == CHOOSE k \in DOMAIN text :
                      text[k] = "\n" /\ \A j \in 1..(k - 1) : text[j] # "\n"
         IN  parse_go_output(Strip(SubSeq(text, 1, n)))
                 \o EventsOf(SubSeq(text, n + 1, Len(text)))

\* C17: in realtime mode with a publish callback, at every moment the events
\* published are exactly the events of the lines read so far, in the order of
\* the lines: the events of a line are out before the next line is read and
\* before the result is read, none is held back until the worker has exited.
C17_EventsAsLinesArrive ==
    (mode = "realtime" /\ publish # "None") =>
        /\ events = EventsOf(go_stderr)
        /\ go_ret # <<>> => events = EventsOf(go_ret[2])

\* C17 witness: the event of a first line is published while the worker is
\* running, a second line is written and not read, and the result is not read
C17_Witness ==
    /\ mode = "realtime"
    /\ proc = "running"
    /\ go_stderr = <<"Downloading", "\n">>
    /\ events = <<[kind |-> "Log", text |-> <<"Downloading">>]>>
    /\ Len(stderr_pipe) = 1
    /\ go_ret = <<>>

C20_TimeoutFromWindow ==
    (pc = "go_get" /\ use_cache /\ HasKey(go_config, "Timeout")) =>
        LET window_days == days(strptime(go_config["Before"])
                                - strptime(go_config["After"]))
        IN  /\ go_config["Timeout"] >= TimeoutFloor
            /\ window_days * SecondsPerDay > TimeoutFloor =>
                   go_config["Timeout"] = window_days * SecondsPerDay

\* C20, the case the code answers differently: a window of 16 days is
\* resolved unchanged and the Timeout of the request is the floor
C20_Diverges ==
    /\ pc = "go_get"
    /\ requested = <<0, 16 * TicksPerDay>>
    /\ go_config["After"] = strftime(0)
    /\ go_config["Before"] = strftime(16 * TicksPerDay)
    /\ go_config["Timeout"] = TimeoutFloor

\* C21: whenever execute with use_cache has spawned the worker, the request
\* written to its stdin has a non-empty window (After before Before) and
\* carries a Timeout, also when the observed products were removed and only
\* forecast products remain.
C21_SpawnedRequestHasWindow ==
    (use_cache /\ mode = "realtime" /\ stdin_writes # <<>>) =>
        LET request == stdin_writes[1]
        IN  /\ strptime(request["After"]) < strptime(request["Before"])
            /\ HasKey(request, "Timeout")

\* C21, the case the code answers differently: the stored data covers the
\* window, the observed product was removed, a forecast product remains, and
\* the worker was spawned with Before earlier than After and no Timeout
C21_Diverges ==
    /\ use_cache
    /\ mode = "realtime"
    /\ stdin_writes # <<>>
    /\ Len(product_ids) = 2
    /\ stdin_writes[1]["Products"] = <<2>>
    /\ strptime(stdin_writes[1]["Before"]) < strptime(stdin_writes[1]["After"])
    /\ ~HasKey(stdin_writes[1], "Timeout")

\* get is blocked in "for line in subprocess_popen.stderr": the pipe is empty
\* and the worker has not closed it
OrchestratorBlocked ==
    /\ pc = "reading"
    /\ stderr_pipe = <<>>
    /\ proc = "running"

\* the worker is blocked in a write to its stdout: it has only result left to
\* write and the pipe is full
WorkerBlocked ==
    /\ proc = "running"
    /\ lines_left = 0
    /\ result_left # <<>>
    /\ Len(stdout_pipe) = StdoutCapacity

\* C22: in a run of get in realtime mode over pipes of bounded capacity, the
\* orchestrator and the worker are never both blocked, the orchestrator
\* waiting for a diagnostic line while the worker waits for its unread
\* result to be taken out of the pipe.
C22_NeverBothBlocked ==
    mode = "realtime" => ~(OrchestratorBlocked /\ WorkerBlocked)

\* C22, the case the code answers differently: every diagnostic line was
\* read, the result pipe is full of the unread start of a path reference,
\* the worker has more to write, and get waits on stderr with no outcome
C22_Diverges ==
    /\ mode = "realtime"
    /\ pc = "reading"
    /\ proc = "running"
    /\ stdin_closed
    /\ stderr_pipe = <<>>
    /\ lines_left = 0
    /\ Len(go_stderr) > 0
    /\ stdout_pipe = <<"grid", "::", "/dir">>
    /\ result_left = <<"/dir">>
    /\ go_ret = <<>>
    /\ outcome = [kind |-> "None"]

====
